---- MODULE Spec2Model ----
(***************************************************************************)
(* The three review scrapers of the repository as one state machine:       *)
(*   trustindex_scraper.py   ("trustindex")   Selenium, 'More' click loop   *)
(*   trustindex_scraper2.py  ("trustindex2")  Selenium, 'More' click loop   *)
(*   trustpilot_scraper.py   ("trustpilot")   requests, page-number loop    *)
(* Each run is the script's main block: it calls the extractor once and     *)
(* then the export writers.  The review site is the environment: what a    *)
(* load, a click or a page request returns is chosen nondeterministically. *)
(***************************************************************************)
EXTENDS Integers, Sequences, FiniteSets, TLC

(* ---- bounds of the model ---- *)
MaxId == 2          \* record identifiers are 1..MaxId; NoId is a record without one
MaxDivs == 2        \* most review records in one page source / one JSON page
MaxLoops == 2       \* largest max_loops argument tried
MaxPagesArg == 2    \* largest max_pages argument tried
MaxSitePages == 2   \* most Trustpilot pages that have reviews
MaxTotalPages == 3  \* largest totalPages value page 1 reports
MaxKeys == 2        \* distinct keys the dictionaries handed to a writer use
MaxReviews == 2     \* longest review list handed to a writer

(* ---- program constants ---- *)
FallbackMaxPages == 1000   \* "high arbitrary limit" of trustpilot_scraper.py

NoId == 0
RecordIds == 0..MaxId
Scripts == {"trustindex", "trustindex2", "trustpilot"}
Selenium == {"trustindex", "trustindex2"}

SeqsUpTo(S, n) == UNION {[1..k -> S] : k \in 0..n}

Min(a, b) == IF a <= b THEN a ELSE b

(* Page sources the sites can serve: each entry is the identifier of one   *)
(* review record (data-id attribute / JSON "id"), NoId when it has none.   *)
PageSources == SeqsUpTo(RecordIds, MaxDivs)

VARIABLES
  script,               \* which of the three scripts runs
  max_loops,            \* argument of extract_reviews_selenium
  arg_max_pages,        \* argument extract_trustpilot_reviews was called with
  max_pages,            \* the local max_pages (line 133 reassigns it)
  site_pages,           \* environment: number of Trustpilot pages that have reviews
  tp_reported,          \* environment: what page 1 gave for totalPages
  pc,                   \* position in the script
  driver,               \* "none" | "open" | "closed"
  page_source,          \* Trustindex: record ids of the browser's page source
  all_reviews_data,     \* the collected list
  extracted_review_ids, \* extracted_review_ids / processed_review_ids
  loop_count,           \* Trustindex: loop_count
  last_known_review_id_count, \* trustindex_scraper2.py: last_known_review_id_count
  current_page,         \* Trustpilot: current_page
  total_pages,          \* Trustpilot: total_pages, [t: "int"|"other", v]
  new_reviews,          \* new unique reviews of the latest load / page
  load_no,              \* number of parses of a page source done so far
  clicks,               \* iterations in which the 'More' button was clicked
  requests,             \* Trustpilot: the page requests made, in order
  exc,                  \* exception that ended the latest step, or "none"
  tolerated,            \* an exception was handled inside the latest iteration
  failed,               \* a failure happened during the extraction
  extract_calls,        \* invocations of the extractor
  writer_calls,         \* invocations of each export writer
  after_export,         \* fetches/clicks made after an export had started
  review_json,          \* parse_trustpilot_review_data: its argument
  review_data,          \* parse_trustpilot_review_data: what the call gave
  export_reviews,       \* write_reviews_to_csv / _excel: the reviews argument
  csv_file,             \* what write_reviews_to_csv left in the CSV file
  xlsx_file             \* what write_reviews_to_excel left in the workbook file

(* The state of the parser and of the writers taken on their own. *)
aux == <<review_json, review_data, export_reviews, csv_file, xlsx_file>>

vars == <<script, max_loops, arg_max_pages, max_pages, site_pages, tp_reported,
          pc, driver, page_source, all_reviews_data, extracted_review_ids,
          loop_count, last_known_review_id_count, current_page, total_pages, new_reviews, load_no, clicks,
          requests, exc, tolerated, failed, extract_calls, writer_calls,
          after_export, aux>>

(* ---------------------------------------------------------------------- *)
(* Parsing and deduplication                                               *)
(* ---------------------------------------------------------------------- *)

(* The temporary identifier key of a parsed review. *)
IdKey == "review_id"

(* A parsed review: its identifier and its payload.  The payload stands    *)
(* for the parsed fields; it names the record the review came from         *)
(* (identifier, number of the load/page, position within it).              *)
Review(id, load, pos) == [review_id |-> id, body |-> <<id, load, pos>>]

(* review.pop('review_id', None) / review.pop('id', None)                  *)
PopId(r) == [k \in (DOMAIN r) \ {IdKey} |-> r[k]]

KeepAlways(s, id, ids) == IF s \in Selenium THEN id # NoId ELSE TRUE
(* The test guarding the append: a truthy, unseen id in the Trustindex     *)
(* scripts; an unseen id (None included) in the Trustpilot script.         *)
Keep(s, id, ids) ==
  IF s \in Selenium THEN id # NoId /\ id \notin ids
  ELSE id \notin ids

AddFirst(all, r) == <<r>> \o all
(* all_reviews_data.append(review_data) *)
AddReview(all, r) == Append(all, r)

(* The for-loop over the records of one page source, from record k on,     *)
(* stopping before record `stop` (Len + 1 when no parse raises).           *)
RECURSIVE Collect(_, _, _, _, _, _, _)
Collect(s, divs, k, stop, load, all, ids) ==
  IF k > Len(divs) \/ k >= stop THEN [all |-> all, ids |-> ids]
  ELSE IF Keep(s, divs[k], ids)
       THEN Collect(s, divs, k + 1, stop, load,
                    AddReview(all, Review(divs[k], load, k)), ids \cup {divs[k]})
       ELSE Collect(s, divs, k + 1, stop, load, all, ids)

(* ---------------------------------------------------------------------- *)
(* Exception handlers around the extraction loops                          *)
(* ---------------------------------------------------------------------- *)

(* An except clause list catches e when it names e or names Exception. *)
Catches(handlers, e) == e \in handlers \/ "Exception" \in handlers

(* Where control goes when the loop is left. *)
AfterLoop(s) == IF s = "trustpilot" THEN "strip" ELSE "finally"

LoopHandlersNarrow(s) ==
  IF s = "trustpilot" THEN {"JSONDecodeError"}
  ELSE {"TimeoutException", "NoSuchElementException"}
(* The except clauses of the try inside the loop body. *)
LoopHandlers(s) ==
  IF s = "trustpilot" THEN {"JSONDecodeError", "Exception"}
  ELSE {"TimeoutException", "NoSuchElementException", "Exception"}

(* The except clauses of the try around the whole extraction. *)
FunctionHandlers(s) == IF s \in Selenium THEN {"Exception"} ELSE {}

(* Exception e reaches the handlers of the loop body: every clause there   *)
(* breaks; an exception they miss goes to the function's handlers, and     *)
(* past those out of the extractor.                                        *)
OnLoopException(s, e) ==
  IF Catches(LoopHandlers(s), e) THEN AfterLoop(s)
  ELSE IF Catches(FunctionHandlers(s), e) THEN "finally"
  ELSE "raised"

(* Exception e raised in the loop but outside the try of the loop body     *)
(* (trustindex_scraper2.py line 161).                                      *)
OnFunctionException(s, e) ==
  IF Catches(FunctionHandlers(s), e) THEN "finally" ELSE "raised"

(* ---------------------------------------------------------------------- *)
(* trustpilot_scraper.py: parse_trustpilot_review_data                      *)
(* ---------------------------------------------------------------------- *)

(* A field of a review object: "absent" (no such key), "null" (the key is  *)
(* there with JSON null) or a value.  Date strings are "iso" (what         *)
(* fromisoformat accepts) or "text" (any other string).                    *)
Plain == {"absent", "null", "value"}
Nested == {"absent", "null", "object"}
DateStrings == {"absent", "null", "iso", "text"}

(* The review objects the parser is tried on.  The fields of dates and of  *)
(* labels exist only when the parent is an object.                         *)
ReviewJsons ==
  {j \in [id : Plain, consumer : Nested, dates : Nested,
          publishedDate : DateStrings, experiencedDate : DateStrings,
          rating : Plain, title : Plain, text : Plain, language : Plain,
          likes : Plain, labels : Nested, verification : Nested] :
     /\ j.dates # "object" => j.publishedDate = "absent" /\ j.experiencedDate = "absent"
     /\ j.labels # "object" => j.verification = "absent"}

(* dict.get(key, default): the default only when the key is absent. *)
Get(v, default) == IF v = "absent" THEN default ELSE v

(* except (ValueError, TypeError) around each date conversion *)
DateHandlers == {"ValueError", "TypeError"}

(* datetime.fromisoformat(s.replace('Z', '+00:00')): what it raises.       *)
(* s is dates.get(key), so None for an absent or null date, and None has   *)
(* no replace.                                                             *)
DateError(v) ==
  CASE Get(v, "null") = "null" -> "AttributeError"
    [] v = "text" -> "ValueError"
    [] OTHER -> "none"

(* The stored date: formatted, or raw when a handled error was raised. *)
DateStored(v) == IF DateError(v) = "none" THEN "formatted" ELSE Get(v, "null")

(* The first exception that leaves parse_trustpilot_review_data, "none"    *)
(* when it returns (lines 35-80, in statement order).                      *)
ParseError(j) ==
  CASE Get(j.consumer, "object") = "null" -> "AttributeError"
    [] Get(j.dates, "object") = "null" -> "AttributeError"
    [] DateError(j.publishedDate) \notin DateHandlers \cup {"none"} ->
         DateError(j.publishedDate)
    [] DateError(j.experiencedDate) \notin DateHandlers \cup {"none"} ->
         DateError(j.experiencedDate)
    [] Get(j.text, "") = "null" -> "AttributeError"
    [] Get(j.labels, "object") = "null" -> "AttributeError"
    [] Get(j.verification, "object") = "null" -> "AttributeError"
    [] OTHER -> "none"

(* The review_data dictionary of a call that returns. *)
ParsedFields(j) ==
  [id |-> Get(j.id, "null"),
   author |-> IF j.consumer = "object" THEN "value" ELSE "null",
   date_published |-> DateStored(j.publishedDate),
   date_experience |-> DateStored(j.experiencedDate),
   rating |-> Get(j.rating, "null"),
   title |-> Get(j.title, "null"),
   body |-> IF j.text = "value" THEN "text" ELSE "",
   language |-> Get(j.language, "null"),
   likes |-> Get(j.likes, "0"),
   is_verified |-> IF j.verification = "object" THEN "value" ELSE "False"]

NoFields == [id |-> "unset"]
Unparsed == [status |-> "unparsed", fields |-> NoFields]

(* parse_trustpilot_review_data(review_json) *)
ParseTrustpilotReviewData(j) ==
  IF ParseError(j) = "none"
  THEN [status |-> "returned", fields |-> ParsedFields(j)]
  ELSE [status |-> ParseError(j), fields |-> NoFields]

ParserIdle ==
  /\ review_json = [id |-> "absent"]
  /\ review_data = Unparsed

(* ---------------------------------------------------------------------- *)
(* Initial state: a script is started with some arguments                  *)
(* ---------------------------------------------------------------------- *)
(* write_reviews_to_csv / write_reviews_to_excel (the same in the three    *)
(* scripts)                                                                *)
(* ---------------------------------------------------------------------- *)

(* Keys are numbered in their sort order: key 1 sorts before key 2.        *)
Keys == 1..MaxKeys
CellValues == {"a", "b"}

(* The dictionaries a writer can be handed: any subset of the keys. *)
ReviewDicts == UNION {[K -> CellValues] : K \in SUBSET Keys}

(* fieldnames = set(); for review in reviews: fieldnames.update(review.keys()) *)
FieldNameSet(rs) == UNION {DOMAIN rs[i] : i \in 1..Len(rs)}

(* sorted(list(fieldnames)) *)
RECURSIVE Sorted(_)
Sorted(S) ==
  IF S = {} THEN <<>>
  ELSE LET m == CHOOSE x \in S : \A y \in S : x <= y
       IN <<m>> \o Sorted(S \ {m})

RowOfNone(review, fieldnames) ==
  [c \in 1..Len(fieldnames) |->
     IF fieldnames[c] \in DOMAIN review THEN review[fieldnames[c]] ELSE "None"]
(* [review.get(field, "") for field in fieldnames]; csv.DictWriter fills a *)
(* missing key with its restval, '' by default.                            *)
RowOf(review, fieldnames) ==
  [c \in 1..Len(fieldnames) |->
     IF fieldnames[c] \in DOMAIN review THEN review[fieldnames[c]] ELSE ""]

Unwritten == [status |-> "unwritten", header |-> <<>>, rows |-> <<>>]

(* What one call of a writer leaves: nothing for an empty list, the header *)
(* and the rows when the write goes through, and no usable file when the   *)
(* write raises (the exception is caught and logged).                      *)
Written(rs, io) ==
  IF rs = <<>> THEN [status |-> "skipped", header |-> <<>>, rows |-> <<>>]
  ELSE IF io # "ok" THEN [status |-> "error", header |-> <<>>, rows |-> <<>>]
  ELSE LET fieldnames == Sorted(FieldNameSet(rs))
       IN [status |-> "written",
           header |-> fieldnames,
           rows |-> [i \in 1..Len(rs) |-> RowOf(rs[i], fieldnames)]]

WritersIdle ==
  /\ export_reviews = <<>>
  /\ csv_file = Unwritten
  /\ xlsx_file = Unwritten

(* ---------------------------------------------------------------------- *)
IntVal(n) == [t |-> "int", v |-> n]
OtherVal == [t |-> "other", v |-> 0]

TotalPagesReports ==
  {[kind |-> "int", v |-> n] : n \in (-1)..MaxTotalPages}
    \cup {[kind |-> "missing", v |-> 0], [kind |-> "non_numeric", v |-> 0]}

MainInit ==
  /\ script \in Scripts
  /\ max_loops \in IF script \in Selenium THEN (-1)..MaxLoops ELSE {0}
  /\ arg_max_pages \in IF script = "trustpilot" THEN 0..MaxPagesArg ELSE {0}
  /\ max_pages = arg_max_pages
  /\ site_pages \in IF script = "trustpilot" THEN 0..MaxSitePages ELSE {0}
  /\ tp_reported = [kind |-> "unread", v |-> 0]
  /\ pc = "main"
  /\ driver = "none"
  /\ page_source = <<>>
  /\ all_reviews_data = <<>>
  /\ extracted_review_ids = {}
  /\ loop_count = 0
  /\ last_known_review_id_count = 0
  /\ current_page = 1
  /\ total_pages = IntVal(1)
  /\ new_reviews = 0
  /\ load_no = 0
  /\ clicks = 0
  /\ requests = <<>>
  /\ exc = "none"
  /\ tolerated = FALSE
  /\ failed = FALSE
  /\ extract_calls = 0
  /\ writer_calls = [csv |-> 0, excel |-> 0]
  /\ after_export = 0

Init == MainInit /\ ParserIdle /\ WritersIdle

(* fetches and clicks are counted against an export having started *)
ExportStarted == writer_calls.csv + writer_calls.excel > 0
CountIO == after_export' = IF ExportStarted THEN after_export + 1 ELSE after_export

(* ---------------------------------------------------------------------- *)
(* Main block: the call of the extractor                                   *)
(* ---------------------------------------------------------------------- *)
CallExtractor ==
  /\ pc = "main"
  /\ extract_calls' = extract_calls + 1
  /\ all_reviews_data' = <<>>
  /\ extracted_review_ids' = {}
  /\ current_page' = 1
  /\ total_pages' = IntVal(1)
  /\ pc' = IF script = "trustpilot" THEN "loop" ELSE "setup"
  /\ UNCHANGED <<aux, script, max_loops, arg_max_pages, max_pages, site_pages,
                 tp_reported, driver, page_source, loop_count,
                 last_known_review_id_count, new_reviews, load_no, clicks,
                 requests, exc, tolerated, failed, writer_calls, after_export>>

(* ---------------------------------------------------------------------- *)
(* trustpilot_scraper.py: extract_trustpilot_reviews                        *)
(* ---------------------------------------------------------------------- *)

(* What the site serves for page p: a page that has reviews serves at      *)
(* least one, a page past the last one serves none.                        *)
ServedPages(p) ==
  IF p <= site_pages THEN PageSources \ {<<>>} ELSE {<<>>}

PageLimitIgnored(reported, limit) == reported
(* total_pages = min(total_pages, max_pages), lines 127-128 *)
PageLimit(reported, limit) ==
  IF limit > 0 THEN Min(reported, limit) ELSE reported

(* Lines 123-133: total_pages and max_pages after page 1 was read. *)
TotalAfterFirstPage(rep, mp) ==
  CASE rep.kind = "int" -> IntVal(PageLimit(rep.v, mp))
    [] rep.kind = "missing" -> IntVal(1)
    [] OTHER -> OtherVal

MaxPagesAfterFirstPage(rep, mp) ==
  IF rep.kind = "missing" /\ mp = 0 THEN FallbackMaxPages ELSE mp

OnFetchErrorRetry == "loop"
(* except requests.exceptions.RequestException: break, lines 107-109 *)
OnFetchError == "strip"

(* The loop ends: by a break (e = "none") or by exception e. *)
TpBreak(e, isFailure) ==
  /\ pc' = IF e = "none" THEN AfterLoop(script) ELSE OnLoopException(script, e)
  /\ exc' = e
  /\ failed' = (failed \/ isFailure)

TpRequest(ok) ==
  /\ requests' = Append(requests, [page |-> current_page, ok |-> ok])
  /\ CountIO

(* One iteration of the while True loop, lines 100-163. *)
PageLoop ==
  /\ script = "trustpilot"
  /\ pc = "loop"
  /\ tolerated' = FALSE
  /\ UNCHANGED <<aux, script, max_loops, arg_max_pages, site_pages, driver,
                 page_source, loop_count, last_known_review_id_count, clicks,
                 extract_calls, writer_calls>>
  /\ \E fetch \in {"ok", "RequestException"} :
       IF fetch # "ok"
       THEN \* lines 104-109
            /\ TpRequest(FALSE)
            /\ pc' = OnFetchError
            /\ exc' = fetch
            /\ failed' = TRUE
            /\ UNCHANGED <<max_pages, tp_reported, all_reviews_data,
                           extracted_review_ids, current_page, total_pages,
                           new_reviews, load_no>>
       ELSE
         /\ TpRequest(TRUE)
         /\ \E doc \in {"ok", "no_script_tag", "JSONDecodeError", "AttributeError"} :
              IF doc # "ok"
              THEN \* lines 115-117, 158-163
                   /\ TpBreak(IF doc = "no_script_tag" THEN "none" ELSE doc, TRUE)
                   /\ UNCHANGED <<max_pages, tp_reported,
                                  all_reviews_data, extracted_review_ids,
                                  current_page, total_pages, new_reviews, load_no>>
              ELSE
                \E reviews_on_page \in ServedPages(current_page),
                   rep \in IF current_page = 1 THEN TotalPagesReports ELSE {tp_reported} :
                  LET tp == IF current_page = 1
                            THEN TotalAfterFirstPage(rep, max_pages) ELSE total_pages
                      mp == IF current_page = 1
                            THEN MaxPagesAfterFirstPage(rep, max_pages) ELSE max_pages
                  IN
                  /\ tp_reported' = rep
                  /\ total_pages' = tp
                  /\ max_pages' = mp
                  /\ IF reviews_on_page = <<>>
                     THEN \* lines 135-137
                          /\ TpBreak("none", FALSE)
                          /\ new_reviews' = 0
                          /\ UNCHANGED <<all_reviews_data, extracted_review_ids,
                                         current_page, load_no>>
                     ELSE
                       \E stop \in 1..(Len(reviews_on_page) + 1) :
                         LET got == Collect(script, reviews_on_page, 1, stop,
                                            current_page, all_reviews_data,
                                            extracted_review_ids)
                         IN
                         /\ all_reviews_data' = got.all
                         /\ extracted_review_ids' = got.ids
                         /\ new_reviews' = Len(got.all) - Len(all_reviews_data)
                         /\ load_no' = load_no + 1
                         /\ IF stop <= Len(reviews_on_page)
                            THEN \* parse_trustpilot_review_data raised, lines 161-163
                                 /\ TpBreak("AttributeError", TRUE)
                                 /\ UNCHANGED current_page
                            ELSE IF tp.t # "int"
                            THEN \* current_page >= total_pages raises TypeError
                                 /\ TpBreak("TypeError", TRUE)
                                 /\ UNCHANGED current_page
                            ELSE IF current_page >= tp.v
                            THEN \* lines 150-152
                                 /\ TpBreak("none", FALSE)
                                 /\ UNCHANGED current_page
                            ELSE \* line 154
                                 /\ current_page' = current_page + 1
                                 /\ pc' = "loop"
                                 /\ exc' = "none"
                                 /\ UNCHANGED failed

(* ---------------------------------------------------------------------- *)
(* trustindex_scraper.py / trustindex_scraper2.py: extract_reviews_selenium *)
(* ---------------------------------------------------------------------- *)

(* get_review_divs_from_source of trustindex_scraper2.py catches a parser  *)
(* error and returns []; trustindex_scraper.py has no such helper.         *)
SoupOutcomes(s) == IF s = "trustindex2" THEN {"ok", "error"} ELSE {"ok"}

(* What the page source can be after a click on 'More': the records shown *)
(* before stay, and zero or more records (new or repeated) follow them.    *)
SourcesAfterClick(old) ==
  {src \in PageSources :
     Len(src) >= Len(old) /\ \A i \in 1..Len(old) : src[i] = old[i]}

(* Driver set-up, page load and the initial extraction. *)
Setup ==
  /\ script \in Selenium
  /\ pc = "setup"
  /\ tolerated' = FALSE
  /\ UNCHANGED <<aux, script, max_loops, arg_max_pages, max_pages, site_pages,
                 tp_reported, current_page, total_pages, clicks, requests,
                 extract_calls, writer_calls>>
  /\ \E o \in {"ok", "no_driver", "load_error"} :
       IF o # "ok"
       THEN /\ driver' = IF o = "no_driver" THEN "none" ELSE "open"
            /\ after_export' = IF o = "no_driver" THEN after_export
                               ELSE IF ExportStarted THEN after_export + 1
                               ELSE after_export
            /\ pc' = OnFunctionException(script, "WebDriverException")
            /\ exc' = "WebDriverException"
            /\ failed' = TRUE
            /\ UNCHANGED <<page_source, all_reviews_data, extracted_review_ids,
                           loop_count, last_known_review_id_count, new_reviews,
                           load_no>>
       ELSE \E src \in PageSources, soup \in SoupOutcomes(script) :
              LET divs == IF soup = "ok" THEN src ELSE <<>>
                  got == Collect(script, divs, 1, Len(divs) + 1, load_no + 1,
                                 all_reviews_data, extracted_review_ids)
              IN
              /\ driver' = "open"
              /\ CountIO
              /\ page_source' = src
              /\ all_reviews_data' = got.all
              /\ extracted_review_ids' = got.ids
              /\ new_reviews' = Len(got.all) - Len(all_reviews_data)
              /\ load_no' = load_no + 1
              /\ loop_count' = 0
              /\ last_known_review_id_count' =
                   IF script = "trustindex2" THEN Cardinality(got.ids)
                   ELSE last_known_review_id_count
              /\ pc' = "loop"
              /\ exc' = "none"
              /\ failed' = (failed \/ soup # "ok")

LoopGuardInclusive(count, limit) == count <= limit
(* while loop_count < max_loops *)
LoopGuard(count, limit) == count < limit

(* The while condition is false: the loop is left. *)
LoopEnd ==
  /\ script \in Selenium
  /\ pc = "loop"
  /\ ~LoopGuard(loop_count, max_loops)
  /\ pc' = AfterLoop(script)
  /\ exc' = "none"
  /\ tolerated' = FALSE
  /\ UNCHANGED <<aux, script, max_loops, arg_max_pages, max_pages, site_pages,
                 tp_reported, driver, page_source, all_reviews_data,
                 extracted_review_ids, loop_count, last_known_review_id_count,
                 current_page, total_pages, new_reviews, load_no, clicks,
                 requests, failed, extract_calls, writer_calls, after_export>>

(* The except clause of the direct click: these fall back to a JavaScript  *)
(* click instead of ending the loop.                                       *)
ClickFallback == {"ElementClickInterceptedException", "StaleElementReferenceException"}

(* The iteration ends before anything was parsed: control goes to target. *)
SelLeave(target, e, isFailure) ==
  /\ pc' = target
  /\ exc' = e
  /\ failed' = (failed \/ isFailure)
  /\ tolerated' = FALSE
  /\ UNCHANGED <<page_source, all_reviews_data, extracted_review_ids,
                 loop_count, last_known_review_id_count, new_reviews, load_no>>

NotClicked == UNCHANGED <<clicks, after_export>>
Clicked == clicks' = clicks + 1 /\ CountIO

(* "Assuming end of reviews": the waits' timeouts are not failures. *)
IsFailure(e) == e \notin {"none", "TimeoutException", "NoSuchElementException"}

NoNewReviewsIgnored(s, added, ids, last_known) == FALSE
(* The stop test after the parse: newly_loaded_reviews == 0 in             *)
(* trustindex_scraper.py, current_unique_count == last_known_review_id_count *)
(* in trustindex_scraper2.py.                                              *)
NoNewReviews(s, added, ids, last_known) ==
  IF s = "trustindex" THEN added = 0 ELSE Cardinality(ids) = last_known

(* The page source after the click is parsed, new reviews are collected    *)
(* and the loop stops or goes on.                                          *)
ParseLoaded(src, divs, wasTolerated, soupFailed) ==
  LET got == Collect(script, divs, 1, Len(divs) + 1, load_no + 1,
                     all_reviews_data, extracted_review_ids)
      added == Len(got.all) - Len(all_reviews_data)
  IN
  /\ page_source' = src
  /\ all_reviews_data' = got.all
  /\ extracted_review_ids' = got.ids
  /\ new_reviews' = added
  /\ load_no' = load_no + 1
  /\ exc' = "none"
  /\ failed' = (failed \/ soupFailed)
  /\ tolerated' = wasTolerated
  /\ IF NoNewReviews(script, added, got.ids, last_known_review_id_count)
     THEN /\ pc' = AfterLoop(script)
          /\ UNCHANGED <<loop_count, last_known_review_id_count>>
     ELSE /\ pc' = "loop"
          /\ loop_count' = loop_count + 1
          /\ last_known_review_id_count' =
               IF script = "trustindex2" THEN Cardinality(got.ids)
               ELSE last_known_review_id_count

(* trustindex_scraper.py: one iteration of the click loop, lines 100-157. *)
ClickLoop ==
  /\ script = "trustindex"
  /\ pc = "loop"
  /\ LoopGuard(loop_count, max_loops)
  /\ UNCHANGED <<aux, script, max_loops, arg_max_pages, max_pages, site_pages,
                 tp_reported, driver, current_page, total_pages, requests,
                 extract_calls, writer_calls>>
  /\ \E w \in {"ok", "TimeoutException", "WebDriverException"} :
       IF w # "ok"
       THEN \* wait for the button / scroll, lines 105-111
            SelLeave(OnLoopException(script, w), w, IsFailure(w)) /\ NotClicked
       ELSE
         \E c \in {"ok", "ElementClickInterceptedException", "WebDriverException"} :
           IF c # "ok" /\ c \notin ClickFallback
           THEN SelLeave(OnLoopException(script, c), c, IsFailure(c)) /\ NotClicked
           ELSE
             \E js \in IF c = "ok" THEN {"ok"}
                       ELSE {"ok", "TimeoutException", "WebDriverException"} :
               IF js # "ok"
               THEN \* the fallback of lines 117-124 raised
                    SelLeave(OnLoopException(script, js), js, IsFailure(js)) /\ NotClicked
               ELSE
                 /\ Clicked
                 /\ \E read \in {"ok", "WebDriverException"} :
                      IF read # "ok"
                      THEN SelLeave(OnLoopException(script, read), read, TRUE)
                      ELSE \E src \in SourcesAfterClick(page_source) :
                             ParseLoaded(src, src, c # "ok", FALSE)

(* trustindex_scraper2.py: one iteration of the click loop, lines 160-277. *)
ClickLoop2 ==
  /\ script = "trustindex2"
  /\ pc = "loop"
  /\ LoopGuard(loop_count, max_loops)
  /\ UNCHANGED <<aux, script, max_loops, arg_max_pages, max_pages, site_pages,
                 tp_reported, driver, current_page, total_pages, requests,
                 extract_calls, writer_calls>>
  /\ \E count \in {"ok", "WebDriverException"} :
       IF count # "ok"
       THEN \* line 161, outside the try of the loop body
            SelLeave(OnFunctionException(script, count), count, TRUE) /\ NotClicked
       ELSE
       \E present \in {"ok", "TimeoutException", "WebDriverException"} :
         IF present = "TimeoutException"
         THEN \* lines 172-174
              SelLeave(AfterLoop(script), present, FALSE) /\ NotClicked
         ELSE IF present # "ok"
         THEN SelLeave(OnLoopException(script, present), present, TRUE) /\ NotClicked
         ELSE
         \E scroll \in {"ok", "WebDriverException"},
            clickable \in {"ok", "TimeoutException", "NoSuchElementException"} :
           IF clickable = "NoSuchElementException"
           THEN \* the wait timed out and find_element raised, lines 188-191
                SelLeave(OnLoopException(script, clickable), clickable, FALSE)
                  /\ NotClicked
           ELSE
           \E c \in {"ok", "ElementClickInterceptedException", "WebDriverException"} :
             IF c # "ok" /\ c \notin ClickFallback
             THEN SelLeave(OnLoopException(script, c), c, TRUE) /\ NotClicked
             ELSE
             \E js \in IF c = "ok" THEN {"ok"} ELSE {"ok", "WebDriverException"} :
               IF js # "ok"
               THEN \* lines 205-207
                    SelLeave(AfterLoop(script), js, TRUE) /\ NotClicked
               ELSE
                 /\ Clicked
                 /\ \E src \in SourcesAfterClick(page_source) :
                      IF ~(Len(src) > Len(page_source))
                      THEN \* the count did not increase, lines 228-239
                           /\ pc' = AfterLoop(script)
                           /\ exc' = "TimeoutException"
                           /\ page_source' = src
                           /\ tolerated' = FALSE
                           /\ UNCHANGED <<failed, all_reviews_data,
                                          extracted_review_ids, loop_count,
                                          last_known_review_id_count,
                                          new_reviews, load_no>>
                      ELSE
                        \E stabilize \in {"ok", "TimeoutException"},
                           soup \in SoupOutcomes(script) :
                          ParseLoaded(src, IF soup = "ok" THEN src ELSE <<>>,
                                      scroll # "ok" \/ clickable # "ok" \/ c # "ok"
                                        \/ stabilize # "ok" \/ soup # "ok",
                                      soup # "ok")

(* finally: driver.quit() when a driver exists.  Chrome's quit() swallows  *)
(* the errors of the quit command, so the clause raises nothing.           *)
Finally ==
  /\ pc = "finally"
  /\ driver' = IF driver = "open" THEN "closed" ELSE driver
  /\ pc' = "strip"
  /\ UNCHANGED <<aux, script, max_loops, arg_max_pages, max_pages, site_pages,
                 tp_reported, page_source, all_reviews_data,
                 extracted_review_ids, loop_count, last_known_review_id_count,
                 current_page, total_pages, new_reviews, load_no, clicks,
                 requests, exc, tolerated, failed, extract_calls, writer_calls,
                 after_export>>

(* Lines 165-170 (and the same lines of the Trustindex scripts): the       *)
(* temporary id is removed from every review and the list is returned.     *)
Return ==
  /\ pc = "strip"
  /\ all_reviews_data' = [i \in 1..Len(all_reviews_data) |-> PopId(all_reviews_data[i])]
  /\ pc' = "returned"
  /\ UNCHANGED <<aux, script, max_loops, arg_max_pages, max_pages, site_pages,
                 tp_reported, driver, page_source, extracted_review_ids,
                 loop_count, last_known_review_id_count, current_page, total_pages, new_reviews, load_no,
                 clicks, requests, exc, tolerated, failed, extract_calls,
                 writer_calls, after_export>>

(* ---------------------------------------------------------------------- *)
(* Main block after the extractor returned                                 *)
(* ---------------------------------------------------------------------- *)

(* The writers a script calls, in order: trustindex_scraper.py has the     *)
(* CSV call commented out.                                                 *)
Writers(s) == IF s = "trustindex" THEN <<"excel">> ELSE <<"csv", "excel">>

AfterExtractAgain(s, reviews) == IF reviews # <<>> THEN "main" ELSE "finished"
(* if reviews: ... else: ... *)
AfterExtract(s, reviews) ==
  IF reviews # <<>> THEN "write_" \o Writers(s)[1] ELSE "finished"

Dispatch ==
  /\ pc = "returned"
  /\ pc' = AfterExtract(script, all_reviews_data)
  /\ UNCHANGED <<aux, script, max_loops, arg_max_pages, max_pages, site_pages,
                 tp_reported, driver, page_source, all_reviews_data,
                 extracted_review_ids, loop_count, last_known_review_id_count,
                 current_page, total_pages, new_reviews, load_no, clicks,
                 requests, exc, tolerated, failed, extract_calls, writer_calls,
                 after_export>>

WriteCsv ==
  /\ pc = "write_csv"
  /\ writer_calls' = [writer_calls EXCEPT !.csv = @ + 1]
  /\ pc' = "write_excel"
  /\ UNCHANGED <<aux, script, max_loops, arg_max_pages, max_pages, site_pages,
                 tp_reported, driver, page_source, all_reviews_data,
                 extracted_review_ids, loop_count, last_known_review_id_count,
                 current_page, total_pages, new_reviews, load_no, clicks,
                 requests, exc, tolerated, failed, extract_calls, after_export>>

WriteExcel ==
  /\ pc = "write_excel"
  /\ writer_calls' = [writer_calls EXCEPT !.excel = @ + 1]
  /\ pc' = "finished"
  /\ UNCHANGED <<aux, script, max_loops, arg_max_pages, max_pages, site_pages,
                 tp_reported, driver, page_source, all_reviews_data,
                 extracted_review_ids, loop_count, last_known_review_id_count,
                 current_page, total_pages, new_reviews, load_no, clicks,
                 requests, exc, tolerated, failed, extract_calls, after_export>>

Next ==
  \/ CallExtractor
  \/ Setup
  \/ LoopEnd
  \/ ClickLoop
  \/ ClickLoop2
  \/ Finally
  \/ PageLoop
  \/ Return
  \/ Dispatch
  \/ WriteCsv
  \/ WriteExcel

Spec == Init /\ [][Next]_vars

(* ---------------------------------------------------------------------- *)
(* The Trustpilot parser on its own: one call on any review object         *)
(* ---------------------------------------------------------------------- *)
MainIdle ==
  /\ MainInit
  /\ script = "trustpilot"
  /\ arg_max_pages = 0
  /\ site_pages = 0

main_vars == <<script, max_loops, arg_max_pages, max_pages, site_pages,
               tp_reported, pc, driver, page_source, all_reviews_data,
               extracted_review_ids, loop_count, last_known_review_id_count,
               current_page, total_pages, new_reviews, load_no, clicks,
               requests, exc, tolerated, failed, extract_calls, writer_calls,
               after_export>>

InitParse ==
  /\ MainIdle
  /\ WritersIdle
  /\ review_json \in ReviewJsons
  /\ review_data = Unparsed

ParseReview ==
  /\ review_data.status = "unparsed"
  /\ review_data' = ParseTrustpilotReviewData(review_json)
  /\ UNCHANGED <<main_vars, review_json, export_reviews, csv_file, xlsx_file>>

NextParse == ParseReview

SpecParse == InitParse /\ [][NextParse]_vars

(* ---------------------------------------------------------------------- *)
(* The writers on their own: each called once on any list of dictionaries  *)
(* ---------------------------------------------------------------------- *)
InitExport ==
  /\ MainIdle
  /\ ParserIdle
  /\ export_reviews \in SeqsUpTo(ReviewDicts, MaxReviews)
  /\ csv_file = Unwritten
  /\ xlsx_file = Unwritten

WriteReviewsToCsv ==
  /\ csv_file.status = "unwritten"
  /\ \E io \in {"ok", "OSError"} : csv_file' = Written(export_reviews, io)
  /\ UNCHANGED <<main_vars, review_json, review_data, export_reviews, xlsx_file>>

WriteReviewsToExcel ==
  /\ xlsx_file.status = "unwritten"
  /\ \E io \in {"ok", "OSError"} : xlsx_file' = Written(export_reviews, io)
  /\ UNCHANGED <<main_vars, review_json, review_data, export_reviews, csv_file>>

NextExport == WriteReviewsToCsv \/ WriteReviewsToExcel

SpecExport == InitExport /\ [][NextExport]_vars

(* ---------------------------------------------------------------------- *)
(* Properties                                                              *)
(* ---------------------------------------------------------------------- *)
IdentOf(r) == r.body[1]
LoadOf(r) == r.body[2]
PosOf(r) == r.body[3]
Collected == 1..Len(all_reviews_data)
Returned == pc \in {"returned", "write_csv", "write_excel", "finished"}
RequestedPages == {requests[i].page : i \in 1..Len(requests)}

(* C1: the collected list never holds two reviews parsed from records with *)
(* the same identifier, in any state of any of the three extractors and in *)
(* the list they return.                                                   *)
C1_NoDuplicateIds ==
  \A i, j \in Collected :
    i # j => IdentOf(all_reviews_data[i]) # IdentOf(all_reviews_data[j])

(* C1 witness: after a 'More' load the page source shows an already        *)
(* collected record twice, and the list holds reviews.                     *)
C1_Witness ==
  /\ script \in Selenium
  /\ load_no >= 2
  /\ all_reviews_data # <<>>
  /\ \E i, j \in 1..Len(page_source) :
       /\ i < j
       /\ page_source[i] = page_source[j]
       /\ page_source[i] \in extracted_review_ids

(* C2: every step leaves the reviews collected so far where they are and   *)
(* only adds after them (the final removal of the temporary id key        *)
(* changes no review's place or payload), and the list is ordered by first *)
(* encounter: by load/page, then by position within it.                    *)
C2_AppendOnlyOrdered ==
  [][ /\ Len(all_reviews_data') >= Len(all_reviews_data)
      /\ \A i \in Collected : all_reviews_data'[i].body = all_reviews_data[i].body
      /\ \A i, j \in 1..Len(all_reviews_data') :
           i < j =>
             LET a == all_reviews_data'[i]
                 b == all_reviews_data'[j]
             IN \/ LoadOf(a) < LoadOf(b)
                \/ LoadOf(a) = LoadOf(b) /\ PosOf(a) < PosOf(b) ]_vars

(* C2 witness: a returned list with reviews of two different loads. *)
C2_Witness ==
  /\ pc = "returned"
  /\ Len(all_reviews_data) >= 2
  /\ LoadOf(all_reviews_data[1]) # LoadOf(all_reviews_data[2])

(* C3: in the Trustindex scripts the 'More' button is clicked in at most   *)
(* max_loops iterations; with max_loops <= 0 it is never clicked and only  *)
(* reviews of the initial load are collected.                              *)
C3_ClicksBounded ==
  script \in Selenium =>
    /\ clicks <= (IF max_loops > 0 THEN max_loops ELSE 0)
    /\ max_loops <= 0 =>
         /\ clicks = 0
         /\ load_no <= 1
         /\ \A i \in Collected : LoadOf(all_reviews_data[i]) = 1

(* C3 witness: a run that clicked max_loops >= 2 times and returned. *)
C3_Witness ==
  /\ script \in Selenium
  /\ pc = "returned"
  /\ max_loops >= 2
  /\ clicks = max_loops

(* C4: called with max_pages > 0, extract_trustpilot_reviews never issues  *)
(* more than max_pages page requests.                                      *)
C4_RequestsBounded ==
  (script = "trustpilot" /\ arg_max_pages > 0) => Len(requests) <= arg_max_pages

(* C4 witness: page 1 reported more pages than max_pages and the run       *)
(* stopped after max_pages requests.                                       *)
C4_Witness ==
  /\ script = "trustpilot"
  /\ pc = "returned"
  /\ ~failed
  /\ tp_reported.kind = "int"
  /\ arg_max_pages >= 2
  /\ tp_reported.v > arg_max_pages
  /\ Len(requests) = arg_max_pages

(* C5: called with max_pages = 0 and with no fetch or parse step failing,  *)
(* the run has requested every page that has reviews when it returns (the  *)
(* total page 1 reports, when it reports one, covering those pages).       *)
C5_ScrapesAllPages ==
  ( /\ script = "trustpilot"
    /\ pc = "returned"
    /\ arg_max_pages = 0
    /\ ~failed
    /\ tp_reported.kind = "int" => tp_reported.v >= site_pages )
  => (1..site_pages) \subseteq RequestedPages

(* C6: whenever a failure happened during the extraction, the extractor    *)
(* returns the empty list.                                                 *)
C6_EmptyOnFailure ==
  (pc = "returned" /\ failed) => all_reviews_data = <<>>

(* C7 as stated: any exception raised inside a loop iteration, handled     *)
(* inside the iteration or not, ends the loop: no iteration follows an     *)
(* iteration in which an exception was raised, and none leaves the         *)
(* extractor.                                                              *)
C7_EveryExceptionBreaks ==
  [][ /\ pc' # "raised"
      /\ (exc # "none" \/ tolerated) => ~(ClickLoop \/ ClickLoop2 \/ PageLoop) ]_vars

(* C7 amended: an exception that gets past the handlers inside the         *)
(* iteration (the JavaScript-click fallback and the tolerated scroll,      *)
(* clickability, stabilisation and page-parser errors) is caught, ends the *)
(* loop, the loop is never entered again, and no exception leaves the      *)
(* extractor.                                                              *)
C7_UnhandledExceptionBreaks ==
  [][ /\ pc' # "raised"
      /\ (pc = "loop" /\ exc' # "none") => pc' \in {"finally", "strip"}
      /\ pc \in {"finally", "strip", "returned"} => pc' \notin {"setup", "loop"} ]_vars

(* C7 witness: an exception ended a loop that had collected reviews, and   *)
(* the extractor returned them.                                            *)
C7_Witness ==
  /\ pc = "returned"
  /\ exc \notin {"none", "TimeoutException"}
  /\ load_no >= 2
  /\ all_reviews_data # <<>>

(* C8: the Trustpilot page requests are pages 1, 2, 3, ... in order, each  *)
(* once, and a failed request is the last request of the run.              *)
C8_NoRetry ==
  \A i \in 1..Len(requests) :
    /\ requests[i].page = i
    /\ ~requests[i].ok => i = Len(requests)

(* C8 witness: the request of a later page failed and the run returned. *)
C8_Witness ==
  /\ script = "trustpilot"
  /\ pc = "returned"
  /\ Len(requests) >= 2
  /\ ~requests[Len(requests)].ok

(* C9: the extractor is invoked once, each writer at most once, a writer   *)
(* runs only after the extractor returned (and, in the Trustindex scripts, *)
(* the browser was closed), and no fetch or click follows an export.       *)
C9_LinearOnce ==
  /\ extract_calls <= 1
  /\ pc # "main" => extract_calls = 1
  /\ writer_calls.csv <= 1
  /\ writer_calls.excel <= 1
  /\ (ExportStarted \/ pc \in {"write_csv", "write_excel"}) =>
       /\ Returned
       /\ script \in Selenium => driver = "closed"
  /\ after_export = 0

(* C9 witness: a finished run that called both writers. *)
C9_Witness ==
  /\ script = "trustindex2"
  /\ pc = "finished"
  /\ writer_calls.csv = 1
  /\ writer_calls.excel = 1
  /\ clicks >= 1

(* C10: when totalPages cannot be read from page 1 and nothing fails, the  *)
(* run stops only after a page that yielded no new reviews or at the       *)
(* max_pages limit (1000 for max_pages = 0); stopping is also accepted     *)
(* here once every page that has reviews was requested.                    *)
C10_FallbackKeepsScraping ==
  ( /\ script = "trustpilot"
    /\ pc = "returned"
    /\ ~failed
    /\ tp_reported.kind = "missing" )
  => \/ new_reviews = 0
     \/ Len(requests) = (IF arg_max_pages = 0 THEN FallbackMaxPages ELSE arg_max_pages)
     \/ Len(requests) >= site_pages

(* C12: in both Trustindex scripts an iteration whose click is followed by *)
(* a parse that adds no new unique review ends the loop at once: the loop  *)
(* is left, loop_count is not incremented, the collection is what it was,  *)
(* and no click is made once the loop is left.                             *)
C12_StopOnNoNewReviews ==
  [][ /\ ( /\ script \in Selenium
           /\ pc = "loop"
           /\ clicks' = clicks + 1
           /\ load_no' = load_no + 1
           /\ new_reviews' = 0 )
         => /\ pc' = "finally"
            /\ loop_count' = loop_count
            /\ all_reviews_data' = all_reviews_data
      /\ (script \in Selenium /\ pc # "loop") => clicks' = clicks ]_vars

(* C12 witness: reviews were collected, a click loaded nothing new, and    *)
(* the loop was left with clicks still allowed by max_loops.               *)
C12_Witness ==
  /\ script \in Selenium
  /\ pc = "finally"
  /\ exc = "none"
  /\ load_no >= 2
  /\ clicks >= 1
  /\ new_reviews = 0
  /\ all_reviews_data # <<>>
  /\ loop_count < max_loops

(* C11: for a review object in which any of the fields is absent or null,  *)
(* parse_trustpilot_review_data returns a record and raises nothing.       *)
C11_ParserToleratesMissing ==
  review_data.status \in {"unparsed", "returned"}

(* A file that was written holds the layout: the header is the union of    *)
(* the keys of all reviews in sorted order, and row i is review i with an  *)
(* empty string in every column whose key it lacks.                        *)
HasLayout(f) ==
  /\ \A c \in 1..Len(f.header) : \A d \in 1..Len(f.header) :
       c < d => f.header[c] < f.header[d]
  /\ {f.header[c] : c \in 1..Len(f.header)} =
       UNION {DOMAIN export_reviews[i] : i \in 1..Len(export_reviews)}
  /\ Len(f.rows) = Len(export_reviews)
  /\ \A i \in 1..Len(f.rows) :
       /\ Len(f.rows[i]) = Len(f.header)
       /\ \A c \in 1..Len(f.header) :
            f.rows[i][c] = IF f.header[c] \in DOMAIN export_reviews[i]
                           THEN export_reviews[i][f.header[c]]
                           ELSE ""

(* C13: for a non-empty review list, a write of write_reviews_to_csv or    *)
(* write_reviews_to_excel that goes through leaves one header row with the *)
(* union of the keys in sorted order and one row per review in input       *)
(* order, with "" where the review lacks the key; nothing is written for   *)
(* an empty list.                                                          *)
C13_ExportLayout ==
  \A f \in {csv_file, xlsx_file} :
    /\ f.status = "written" => export_reviews # <<>> /\ HasLayout(f)
    /\ f.status = "skipped" <=> (f.status # "unwritten" /\ export_reviews = <<>>)

(* C13 witness: both files written from two reviews, one of which lacks a  *)
(* key the other has.                                                      *)
C13_Witness ==
  /\ csv_file.status = "written"
  /\ xlsx_file.status = "written"
  /\ Len(export_reviews) = 2
  /\ Len(csv_file.header) = 2
  /\ \E i \in 1..2 : \E c \in 1..2 : csv_file.header[c] \notin DOMAIN export_reviews[i]
====
